---- MODULE Spec2Model ----
(***************************************************************************)
(* Model of gen.py, the static-site generator: the module-level pipeline   *)
(* (get_posts over ./content/*.md, sort by date, write index.md,           *)
(* get_posts over *.md, make_html twice) run over a small filesystem.      *)
(*                                                                         *)
(* Strings are TLA+ strings (paths, titles, dates); Python's None is the   *)
(* empty tuple and a present date d is <<d>>.  A Markdown file is the pair *)
(* of what the "meta" extension extracts from it (a mapping from keys to   *)
(* non-empty lists of values) and its body, a sequence of paragraphs.      *)
(***************************************************************************)
EXTENDS Integers, Sequences, FiniteSets, TLC

VARIABLES fs, pc, content_posts, meta_posts, error, trace, run, prevFs

vars == <<fs, pc, content_posts, meta_posts, error, trace, run, prevFs>>

\* Bounds of the model.
MaxContent == 2
MaxRuns == 2

\* ---------------------------------------------------------------- strings

None == <<>>

\* str(date) as "{}".format(date) prints it.
Str(date) == IF date = None THEN "None" ELSE date[1]

\* Code points of the characters that occur in dates.
Ord == ("-" :> 45) @@ ("0" :> 48) @@ ("1" :> 49) @@ ("2" :> 50) @@ ("9" :> 57)
       @@ ("N" :> 78) @@ ("e" :> 101) @@ ("n" :> 110) @@ ("o" :> 111)

CharAt(s, k) == SubSeq(s, k, k)

RECURSIVE StrLessFrom(_, _, _)
StrLessFrom(a, b, k) ==
    IF k > Len(b) THEN FALSE
    ELSE IF k > Len(a) THEN TRUE
    ELSE IF Ord[CharAt(a, k)] < Ord[CharAt(b, k)] THEN TRUE
    ELSE IF Ord[CharAt(a, k)] > Ord[CharAt(b, k)] THEN FALSE
    ELSE StrLessFrom(a, b, k + 1)

\* Python's a < b on two str values: lexicographic by code point.
StrLess(a, b) == StrLessFrom(a, b, 1)

StartsWith(s, prefix) ==
    Len(s) >= Len(prefix) /\ SubSeq(s, 1, Len(prefix)) = prefix

EndsWith(s, suffix) ==
    Len(s) >= Len(suffix) /\ SubSeq(s, Len(s) - Len(suffix) + 1, Len(s)) = suffix

\* ------------------------------------------------------------- filesystem

ContentNames == {"a.md", "b.md", "README.md"}
RootNames == {"about.md", "README.md"}

TitleLists == {<<>>, <<"Foo">>, <<"Foo", "Bar">>}

\* md.Meta of a file whose front-matter gives the title values t and the date
\* values d (an empty list: the key is absent from the mapping).
MetaOf(t, d) ==
    [k \in {x \in {"title", "date"} :
              (x = "title" /\ t # <<>>) \/ (x = "date" /\ d # <<>>)} |->
        IF k = "title" THEN t ELSE d]

\* Content files: every title list without a date and with the date "9", and
\* titled files dated "10" and dated with the two values "10", "9".
ContentFiles ==
    {[meta |-> MetaOf(t, d), body |-> <<"text">>] : t \in TitleLists, d \in {<<>>, <<"9">>}}
    \cup {[meta |-> MetaOf(<<"Foo">>, d), body |-> <<"text">>] : d \in {<<"10">>, <<"10", "9">>}}

RootFiles ==
    {[meta |-> MetaOf(t, <<>>), body |-> <<"text">>] : t \in {<<>>, <<"Foo">>}}

ContentDirs ==
    UNION {[S -> ContentFiles] : S \in {T \in SUBSET ContentNames : Cardinality(T) <= MaxContent}}

RootDirs == UNION {[S -> RootFiles] : S \in SUBSET RootNames}

\* The repository before the first run: the content directory c and the
\* root-level Markdown files r.
Tree(c, r) ==
    [p \in {"./content/" \o n : n \in DOMAIN c} \cup DOMAIN r |->
        IF p \in DOMAIN r THEN r[p]
        ELSE c[CHOOSE n \in DOMAIN c : "./content/" \o n = p]]

\* open(path, "w") ... write: the file is created or overwritten.
WriteFile(files, path, data) ==
    [p \in DOMAIN files \cup {path} |-> IF p = path THEN data ELSE files[p]]

\* glob(post_path) for a pattern "<directory>*.md": the paths in that
\* directory that end in ".md".
Glob(post_path) ==
    LET prefix == SubSeq(post_path, 1, Len(post_path) - 4)
    IN {p \in DOMAIN fs :
          /\ StartsWith(p, prefix)
          /\ EndsWith(p, ".md")
          /\ \A k \in (Len(prefix) + 1)..Len(p) : CharAt(p, k) # "/"}

\* glob returns the matches in arbitrary order.
Orders(S) ==
    {s \in [1..Cardinality(S) -> S] : \A j, k \in 1..Cardinality(S) : s[j] = s[k] => j = k}

\* ------------------------------------------------------------------ Post

\* md.convert: each paragraph of the body becomes a <p> element.
Convert(body) == [k \in 1..Len(body) |-> <<"p", body[k]>>]

\* list.pop(): the last value of the list.
Pop(values) == values[Len(values)]

Post(content, filename, title, date, post_type) ==
    [content |-> content,
     filename |-> SubSeq(filename, 1, Len(filename) - 2),
     title |-> title,
     date |-> date,
     post_type |-> post_type]

render_html(post) ==
    IF post.post_type = "content"
    THEN [template |-> "templates/content.html", content |-> post.content,
          title |-> post.title, date |-> post.date]
    ELSE [template |-> "templates/meta.html", content |-> post.content,
          title |-> post.title]

\* The path write_to_file opens.
HtmlPath(post) == post.filename \o "html"

write_to_file(files, post) == WriteFile(files, HtmlPath(post), render_html(post))

\* ------------------------------------------------------------- get_posts

\* get_posts without the README.md branch.
SkipsNothing(post) == FALSE

\* The branch of get_posts that passes over a glob result.
Skipped(post) == post = "README.md"

Opened(order) == SelectSeq(order, LAMBDA p : ~Skipped(p))

\* md.Meta["title"] raises KeyError.
get_posts_raises(order) ==
    \E k \in 1..Len(Opened(order)) : "title" \notin DOMAIN fs[Opened(order)[k]].meta

TitleOf(meta) == Pop(meta["title"])

DateOf(meta) == IF "date" \in DOMAIN meta THEN <<Pop(meta["date"])>> ELSE None

get_posts(order, post_type) ==
    [k \in 1..Len(Opened(order)) |->
        LET name == Opened(order)[k]
            data == fs[name]
        IN Post(Convert(data.body), name, TitleOf(data.meta), DateOf(data.meta), post_type)]

\* -------------------------------------------------------------------- sort

\* The two keys compared as numbers instead of as strings.
KeyLessNumeric(p, q) ==
    Len(p.date[1]) < Len(q.date[1])
    \/ (Len(p.date[1]) = Len(q.date[1]) /\ StrLess(p.date[1], q.date[1]))

\* post.date < other.date between two sort keys that are both str.
KeyLess(p, q) == StrLess(p.date[1], q.date[1])

\* Comparing None with a str or with None raises TypeError; a sort of two or
\* more posts compares every key at least once.
sort_raises(posts) ==
    Len(posts) >= 2 /\ \E k \in 1..Len(posts) : posts[k].date = None

\* Stable insertion: p goes after every post whose key is not less than p's.
RECURSIVE InsertDesc(_, _)
InsertDesc(sorted, p) ==
    IF sorted = <<>> THEN <<p>>
    ELSE IF KeyLess(Head(sorted), p) THEN <<p>> \o sorted
    ELSE <<Head(sorted)>> \o InsertDesc(Tail(sorted), p)

RECURSIVE SortDesc(_, _)
SortDesc(sorted, rest) ==
    IF rest = <<>> THEN sorted
    ELSE SortDesc(InsertDesc(sorted, Head(rest)), Tail(rest))

\* list.sort(key=lambda post: post.date, reverse=True): stable, descending.
Sorted(posts) == IF Len(posts) <= 1 THEN posts ELSE SortDesc(<<>>, posts)

\* ---------------------------------------------------------------- index.md

\* An entry that links the Markdown source instead of the HTML output.
FormatEntryMd(post) ==
    [title |-> post.title, link |-> post.filename \o "md", date |-> Str(post.date)]

\* "[{}]({}) ({})\n\n".format(post.title, post.filename + "html", post.date)
FormatEntry(post) ==
    [title |-> post.title, link |-> post.filename \o "html", date |-> Str(post.date)]

\* What index.md holds once written: the front-matter "title: Index", a blank
\* line, and one paragraph per post.
IndexMd(posts) ==
    [meta |-> MetaOf(<<"Index">>, <<>>),
     body |-> [k \in 1..Len(posts) |-> FormatEntry(posts[k])]]

\* ---------------------------------------------------------------- make_html

RECURSIVE make_html(_, _)
make_html(files, post_list) ==
    IF post_list = <<>> THEN files
    ELSE make_html(write_to_file(files, Head(post_list)), Tail(post_list))

Paths(post_list) == [k \in 1..Len(post_list) |-> HtmlPath(post_list[k])]

\* ----------------------------------------------------------------- pipeline

\* The pipeline with make_html(content_posts) moved before the root get_posts.
PhaseAfterRenderFirst(phase) ==
    CASE phase = "load_content" -> "sort"
      [] phase = "sort" -> "write_index"
      [] phase = "write_index" -> "make_content"
      [] phase = "make_content" -> "load_root"
      [] phase = "load_root" -> "make_meta"
      [] OTHER -> "done"

\* The pipeline with the root get_posts moved before the index.md writer.
PhaseAfterRootFirst(phase) ==
    CASE phase = "load_content" -> "sort"
      [] phase = "sort" -> "load_root"
      [] phase = "load_root" -> "write_index"
      [] phase = "write_index" -> "make_content"
      [] phase = "make_content" -> "make_meta"
      [] OTHER -> "done"

\* The order of the module-level statements.
PhaseAfter(phase) ==
    CASE phase = "load_content" -> "sort"
      [] phase = "sort" -> "write_index"
      [] phase = "write_index" -> "load_root"
      [] phase = "load_root" -> "make_content"
      [] phase = "make_content" -> "make_meta"
      [] OTHER -> "done"

Init ==
    /\ \E c \in ContentDirs, r \in RootDirs : fs = Tree(c, r)
    /\ prevFs = fs
    /\ pc = "load_content"
    /\ content_posts = <<>>
    /\ meta_posts = <<>>
    /\ error = "none"
    /\ trace = <<>>
    /\ run = 1

Raise(exception) ==
    /\ pc' = "aborted"
    /\ error' = exception

\* content_posts = get_posts("./content/*.md", "content")
LoadContent ==
    /\ pc = "load_content"
    /\ trace' = Append(trace, "load_content")
    /\ \E order \in Orders(Glob("./content/*.md")) :
          IF get_posts_raises(order)
          THEN Raise("KeyError") /\ UNCHANGED content_posts
          ELSE /\ content_posts' = get_posts(order, "content")
               /\ pc' = PhaseAfter(pc)
               /\ UNCHANGED error
    /\ UNCHANGED <<fs, meta_posts, run, prevFs>>

\* content_posts.sort(key=lambda post: post.date, reverse=True)
Sort ==
    /\ pc = "sort"
    /\ trace' = Append(trace, "sort")
    /\ IF sort_raises(content_posts)
       THEN Raise("TypeError") /\ UNCHANGED content_posts
       ELSE /\ content_posts' = Sorted(content_posts)
            /\ pc' = PhaseAfter(pc)
            /\ UNCHANGED error
    /\ UNCHANGED <<fs, meta_posts, run, prevFs>>

\* with open("index.md", "w") as file: ...
WriteIndex ==
    /\ pc = "write_index"
    /\ trace' = Append(trace, "write_index")
    /\ fs' = WriteFile(fs, "index.md", IndexMd(content_posts))
    /\ pc' = PhaseAfter(pc)
    /\ UNCHANGED <<content_posts, meta_posts, error, run, prevFs>>

\* meta_posts = get_posts("*.md", "meta")
LoadRoot ==
    /\ pc = "load_root"
    /\ trace' = Append(trace, "load_root")
    /\ \E order \in Orders(Glob("*.md")) :
          IF get_posts_raises(order)
          THEN Raise("KeyError") /\ UNCHANGED meta_posts
          ELSE /\ meta_posts' = get_posts(order, "meta")
               /\ pc' = PhaseAfter(pc)
               /\ UNCHANGED error
    /\ UNCHANGED <<fs, content_posts, run, prevFs>>

\* make_html(content_posts)
MakeContent ==
    /\ pc = "make_content"
    /\ trace' = Append(trace, "make_content") \o Paths(content_posts)
    /\ fs' = make_html(fs, content_posts)
    /\ pc' = PhaseAfter(pc)
    /\ UNCHANGED <<content_posts, meta_posts, error, run, prevFs>>

\* make_html(meta_posts)
MakeMeta ==
    /\ pc = "make_meta"
    /\ trace' = Append(trace, "make_meta") \o Paths(meta_posts)
    /\ fs' = make_html(fs, meta_posts)
    /\ pc' = PhaseAfter(pc)
    /\ UNCHANGED <<content_posts, meta_posts, error, run, prevFs>>

\* The script is run again on the filesystem the last run left.
Rerun ==
    /\ pc \in {"done", "aborted"}
    /\ run < MaxRuns
    /\ run' = run + 1
    /\ prevFs' = fs
    /\ pc' = "load_content"
    /\ content_posts' = <<>>
    /\ meta_posts' = <<>>
    /\ error' = "none"
    /\ trace' = <<>>
    /\ UNCHANGED fs

Next ==
    \/ LoadContent
    \/ Sort
    \/ WriteIndex
    \/ LoadRoot
    \/ MakeContent
    \/ MakeMeta
    \/ Rerun

Spec == Init /\ [][Next]_vars

\* ------------------------------------------------------- claims: vocabulary

PhaseNames ==
    {"load_content", "sort", "write_index", "load_root", "make_content", "make_meta"}

\* The phases the current run has entered, in order.
Phases == SelectSeq(trace, LAMBDA e : e \in PhaseNames)

\* The position of event e in the current run's trace, 0 when it has not happened.
Pos(e) == IF \E k \in 1..Len(trace) : trace[k] = e
          THEN CHOOSE k \in 1..Len(trace) : trace[k] = e
          ELSE 0

\* The paths the current run has written HTML to.
WrittenHtml == {trace[k] : k \in 1..Len(trace)} \ PhaseNames

IsPrefix(s, t) == Len(s) <= Len(t) /\ SubSeq(t, 1, Len(s)) = s

HtmlFiles(files) == {p \in DOMAIN files : EndsWith(p, ".html")}

HtmlPart(files) == [p \in HtmlFiles(files) |-> files[p]]

\* P holds of every post the current run has loaded.
EveryPost(P(_)) ==
    /\ \A k \in 1..Len(content_posts) : P(content_posts[k])
    /\ \A k \in 1..Len(meta_posts) : P(meta_posts[k])

IndexBody == fs["index.md"].body

IndexLinks == {IndexBody[k].link : k \in 1..Len(IndexBody)}

\* The Markdown file a post was read from.
SourceOf(post) == post.filename \o "md"

RootLoaded == pc \in {"make_content", "make_meta", "done"}

\* ------------------------------------------------------------------ claims

\* C1: in the index.md a run has written, an entry whose date is greater
\* (lexicographically) than another entry's date comes before it.
C1_IndexNewestFirst ==
    "index.md" \in DOMAIN fs =>
        \A k, l \in 1..Len(IndexBody) :
            StrLess(IndexBody[l].date, IndexBody[k].date) => k < l

\* C1 witness: an index of two posts whose dates differ, "9" listed before "10".
C1_Witness ==
    /\ pc = "done"
    /\ "index.md" \in DOMAIN fs
    /\ Len(IndexBody) = 2
    /\ IndexBody[1].date = "9"
    /\ IndexBody[2].date = "10"

\* The order of phases the specification gives.
SpecOrder ==
    <<"load_content", "sort", "write_index", "make_content", "load_root", "make_meta">>

\* The order of phases of the script.
CodeOrder ==
    <<"load_content", "sort", "write_index", "load_root", "make_content", "make_meta">>

\* C2 as stated: the phases run in the order load content, sort, write
\* index.md, render-and-write content posts, load root Markdown,
\* render-and-write meta posts; every content post's HTML is written before
\* the root-level files are loaded.
C2_SpecPhaseOrder ==
    /\ IsPrefix(Phases, SpecOrder)
    /\ Pos("load_root") > 0 =>
          \A k \in 1..Len(content_posts) :
              Pos(HtmlPath(content_posts[k])) \in 1..(Pos("load_root") - 1)

\* C2 amended: the phases run in the order load content, sort, write
\* index.md, load root Markdown, render-and-write content posts,
\* render-and-write meta posts; a finished run went through all six, and
\* every content post's HTML is written after the root-level files were
\* loaded and before any meta post's HTML.
C2_CodePhaseOrder ==
    /\ IsPrefix(Phases, CodeOrder)
    /\ pc = "done" => Phases = CodeOrder
    /\ \A k \in 1..Len(content_posts) :
          LET w == Pos(HtmlPath(content_posts[k]))
          IN /\ w > 0 => Pos("load_root") \in 1..(w - 1)
             /\ (w > 0 /\ Pos("make_meta") > 0) => w < Pos("make_meta")
             /\ pc \in {"make_meta", "done"} => w > 0
    /\ \A k \in 1..Len(meta_posts) :
          LET w == Pos(HtmlPath(meta_posts[k]))
          IN /\ w > 0 => Pos("make_meta") \in 1..(w - 1)
             /\ pc = "done" => w > 0

\* C2 witness: a finished run that wrote a content post and two meta posts.
C2_Witness ==
    /\ pc = "done"
    /\ Len(content_posts) >= 1
    /\ Len(meta_posts) >= 2

\* C3: a second run on unchanged sources leaves every output file (the HTML
\* files, index.md and index.html) with the contents the first run gave it.
C3_Idempotent ==
    (pc = "done" /\ run > 1) => fs = prevFs

\* No file that a Loader pass opens lacks a title.
AllTitled ==
    \A p \in DOMAIN fs :
        (EndsWith(p, ".md") /\ p # "README.md") => "title" \in DOMAIN fs[p].meta

\* C4: a content file without a date gives a Post whose date is None, and a
\* run over files that all have titles does not abort, whichever of them
\* lack a date.
C4_MissingDatePermitted ==
    /\ EveryPost(LAMBDA post :
          "date" \notin DOMAIN fs[SourceOf(post)].meta => post.date = None)
    /\ AllTitled => pc # "aborted"

\* C5: a post's title is the first value of its file's title list, and its
\* date the first value of the date list when there is one.
C5_FirstValue ==
    EveryPost(LAMBDA post :
        LET meta == fs[SourceOf(post)].meta
        IN /\ post.title = Head(meta["title"])
           /\ "date" \in DOMAIN meta => post.date = <<Head(meta["date"])>>)

\* C6: the root-level README.md never becomes a Post: no README.html is
\* written and no index entry links to it.
C6_RootReadmeNeverPost ==
    /\ "README.html" \notin DOMAIN fs
    /\ EveryPost(LAMBDA post : SourceOf(post) # "README.md")
    /\ "index.md" \in DOMAIN fs => "README.html" \notin IndexLinks

\* C6 witness: a finished run over a root with a README.md that has a title.
C6_Witness ==
    /\ pc = "done"
    /\ "README.md" \in DOMAIN fs
    /\ "title" \in DOMAIN fs["README.md"].meta
    /\ Len(meta_posts) >= 2

\* C7: whatever the pattern, a matched file named README.md yields no Post:
\* the content directory's README.md is neither rendered nor listed.
C7_ReadmeNeverPost ==
    /\ EveryPost(LAMBDA post : ~EndsWith(SourceOf(post), "README.md"))
    /\ "./content/README.html" \notin DOMAIN fs
    /\ "index.md" \in DOMAIN fs => "./content/README.html" \notin IndexLinks

\* C8: index.md is written before the root-level pass reads any file; the
\* root pass loads this run's index.md as a meta Post titled Index; a
\* finished run has written index.html from it.
C8_FreshIndex ==
    /\ Pos("load_root") > 0 => Pos("write_index") \in 1..(Pos("load_root") - 1)
    /\ RootLoaded =>
          /\ Len(IndexBody) = Len(content_posts)
          /\ \A k \in 1..Len(IndexBody) :
                /\ IndexBody[k].title = content_posts[k].title
                /\ IndexBody[k].link = HtmlPath(content_posts[k])
                /\ IndexBody[k].date = Str(content_posts[k].date)
          /\ \E k \in 1..Len(meta_posts) :
                /\ meta_posts[k].filename = "index."
                /\ meta_posts[k].post_type = "meta"
                /\ meta_posts[k].title = "Index"
                /\ meta_posts[k].content = Convert(IndexBody)
    /\ pc = "done" =>
          /\ "index.html" \in WrittenHtml
          /\ fs["index.html"].title = "Index"
          /\ fs["index.html"].content = Convert(IndexBody)

\* C8 witness: a finished second run whose index.md differs from the one the
\* first run left.
C8_Witness ==
    /\ pc = "done"
    /\ run > 1
    /\ "index.md" \in DOMAIN prevFs
    /\ prevFs["index.md"] # fs["index.md"]

\* C9: the index.md a run writes has exactly one entry per content Post, one
\* per file of the content directory, each linking to the path that post's
\* HTML is written to, and none for a root-level page; with no content file
\* it has no entry, and index.html is still produced.
C9_IndexEntries ==
    /\ Pos("write_index") > 0 =>
          /\ Len(IndexBody) = Len(content_posts)
          /\ \A k \in 1..Len(IndexBody) : IndexBody[k].link = HtmlPath(content_posts[k])
          /\ \A j, k \in 1..Len(IndexBody) :
                IndexBody[j].link = IndexBody[k].link => j = k
          /\ IndexLinks =
                {SubSeq(p, 1, Len(p) - 2) \o "html" : p \in Glob("./content/*.md")}
          /\ \A p \in Glob("*.md") : SubSeq(p, 1, Len(p) - 2) \o "html" \notin IndexLinks
          /\ Glob("./content/*.md") = {} => IndexBody = <<>>
    /\ pc = "done" =>
          /\ IndexLinks \subseteq WrittenHtml
          /\ \A k \in 1..Len(meta_posts) : HtmlPath(meta_posts[k]) \notin IndexLinks
          /\ "index.html" \in WrittenHtml
          /\ fs["index.html"].content = Convert(IndexBody)

\* C9 witness: a finished run that listed two content posts beside a
\* root-level page.
C9_Witness ==
    /\ pc = "done"
    /\ Len(IndexBody) = 2
    /\ "about.md" \in DOMAIN fs

====
